---- MODULE Spec2Model ----
(***************************************************************************)
(* Model of the occupancy grid node of cartographer_ros                    *)
(* (cartographer_ros/cartographer_ros/occupancy_grid_node_main.cc).        *)
(*                                                                         *)
(* Two callbacks of class Node share submap_slices_, last_frame_id_ and    *)
(* last_timestamp_ under mutex_: HandleSubmapList (the subscription        *)
(* callback) and DrawAndPublish (the wall timer callback).  Each callback  *)
(* is a program counter machine; one action is one statement or one loop   *)
(* iteration of the source, so that the other callback can run in between. *)
(***************************************************************************)
EXTENDS Integers, Sequences, FiniteSets, TLC

(* ------------------------------ bounds --------------------------------- *)
NumSubmaps == 2      \* submap ids are (0,0) .. (0,NumSubmaps-1)
MaxVersion == 2      \* submap versions range over 1..MaxVersion
MaxBatchLen == 2     \* entries in one SubmapList message
MaxStamp == 1        \* header stamps range over 1..MaxStamp
MaxPose == 1         \* poses of the entries range over 1..MaxPose
MaxWidth == 2        \* widths of the surfaces given to PublishOccupancyGrid
MaxHeight == 2       \* heights of the surfaces given to PublishOccupancyGrid

SubmapIds == {<<0, i>> : i \in 0..(NumSubmaps - 1)}
Versions == 1..MaxVersion
FrameIds == {"", "map"}
Stamps == 1..MaxStamp
Poses == 1..MaxPose

(* --------------------------- message shapes ---------------------------- *)
\* One entry of msg->submap: trajectory_id, submap_index, submap_version, pose.
SubmapEntries ==
  {[id |-> i, submap_version |-> v, pose |-> p] :
     i \in SubmapIds, v \in Versions, p \in Poses}

RECURSIVE SeqsUpTo(_, _)
SeqsUpTo(S, n) ==
  IF n = 0 THEN {<<>>}
  ELSE LET shorter == SeqsUpTo(S, n - 1)
       IN shorter \cup {Append(s, e) : s \in {t \in shorter : Len(t) = n - 1}, e \in S}

\* The SubmapList messages the subscription can deliver.
SubmapLists ==
  {[frame_id |-> f, stamp |-> t, submap |-> s] :
     f \in FrameIds, t \in Stamps, s \in SeqsUpTo(SubmapEntries, MaxBatchLen)}

NoMsg == [frame_id |-> "", stamp |-> 0, submap |-> <<>>]

\* The textures the query service renders of a submap at version v: the
\* highest resolution one and a coarser one.  Every field differs between the
\* two and between versions, so that fields of different origin can be told
\* apart.
Texture(v) ==
  [width |-> 10 + v, height |-> 20 + v, slice_pose |-> 30 + v,
   resolution |-> 40 + v, pixels |-> 50 + v]
CoarseTexture(v) ==
  [width |-> 60 + v, height |-> 70 + v, slice_pose |-> 80 + v,
   resolution |-> 90 + v, pixels |-> 100 + v]

nullptr == <<>>

\* What FetchSubmapTextures can return: nullptr (ok = FALSE), or a response
\* with the version the service holds and a texture list, which a service
\* that breaks its contract leaves empty.
NullTextures == [ok |-> FALSE, version |-> 0, textures |-> <<>>]
TexturesOf(v) == {<<>>, <<Texture(v), CoarseTexture(v)>>}
FetchResults ==
  {NullTextures} \cup
  UNION {{[ok |-> TRUE, version |-> v, textures |-> ts] : ts \in TexturesOf(v)} :
           v \in Versions}

(* ------------------------------- state --------------------------------- *)
VARIABLES
  submap_slices_,        \* std::map<SubmapId, SubmapSlice>
  last_frame_id_,        \* std::string
  last_timestamp_,       \* rclcpp::Time
  mutex_,                \* "free", "handler" or "timer"
  hpc,                   \* position of HandleSubmapList
  msg,                   \* its argument
  idx,                   \* position of the loop over msg->submap (1-based)
  submap_ids_to_delete,  \* its local std::set<SubmapId>
  fetched_textures,      \* its local response of FetchSubmapTextures
  tpc,                   \* position of DrawAndPublish
  painted_slices,        \* its local PaintSubmapSlicesResult
  published,             \* the grid the running tick handed to the publisher
  \* history of the run, read by the properties only
  fetch_calls,           \* FetchSubmapTextures calls per id in the running call
  entry_before,          \* the last entry, and the slice and calls as it found them
  entry_outcome,         \* what the last entry did
  fetch_failed,          \* ids whose last fetch in the running call failed
  retry_pending,         \* ids whose last fetch failed in the last call naming them
  committed,             \* the shared state as the last completed call left it
  delivered_header,      \* header of the last message whose call returned
  reconciled_header,     \* header of the last message that was reconciled
  repeatable,            \* the last message, if its call filled an empty cache
  snapshot,              \* the slices the running tick gave to the compositor
  previous_grid          \* the grid of the last tick, no call having run since

vars == <<submap_slices_, last_frame_id_, last_timestamp_, mutex_, hpc, msg, idx,
          submap_ids_to_delete, fetched_textures, tpc, painted_slices, published,
          fetch_calls, entry_before, entry_outcome, fetch_failed, retry_pending,
          committed, delivered_header, reconciled_header, repeatable, snapshot,
          previous_grid>>

progVars == <<submap_slices_, last_frame_id_, last_timestamp_>>
handlerLocals == <<msg, idx, submap_ids_to_delete, fetched_textures>>
handlerVars == <<hpc, msg, idx, submap_ids_to_delete, fetched_textures>>
timerVars == <<tpc, painted_slices, published, snapshot>>
entryHistory == <<entry_before, entry_outcome>>
callHistory == <<fetch_calls, fetch_failed>>
runHistory == <<retry_pending, committed, delivered_header, reconciled_header,
                repeatable>>
tickHistory == <<previous_grid>>

(* ------------------------------ helpers -------------------------------- *)
\* A value-initialized SubmapSlice, as submap_slices_[id] creates it.
FreshSlice ==
  [pose |-> 0, metadata_version |-> -1, version |-> 0, width |-> 0, height |-> 0,
   slice_pose |-> 0, resolution |-> 0, surface |-> nullptr, cairo_data |-> <<>>]

\* DrawTexture: the surface drawn from the pixels of a texture.
DrawTexture(pixels, width, height) == <<pixels, width, height>>

\* The fields of a slice that a fetched texture fills.
Raster(slice) ==
  [version |-> slice.version, width |-> slice.width, height |-> slice.height,
   slice_pose |-> slice.slice_pose, resolution |-> slice.resolution,
   surface |-> slice.surface, cairo_data |-> slice.cairo_data]

SliceOf(slices, id) == IF id \in DOMAIN slices THEN slices[id] ELSE FreshSlice

\* Line 141 guarded: the metadata version is written only when it grows.
UpsertSlice_KeepsNewerVersion(slices, submap_msg) ==
  LET slice == SliceOf(slices, submap_msg.id)
  IN [i \in (DOMAIN slices) \cup {submap_msg.id} |->
        IF i = submap_msg.id
        THEN [slice EXCEPT
                !.pose = submap_msg.pose,
                !.metadata_version =
                   IF submap_msg.submap_version > slice.metadata_version
                   THEN submap_msg.submap_version ELSE slice.metadata_version]
        ELSE slices[i]]

\* Lines 139-141: submap_slices_[id] with pose and metadata_version written.
UpsertSlice(slices, submap_msg) ==
  LET slice == SliceOf(slices, submap_msg.id)
  IN [i \in (DOMAIN slices) \cup {submap_msg.id} |->
        IF i = submap_msg.id
        THEN [slice EXCEPT !.pose = submap_msg.pose,
                           !.metadata_version = submap_msg.submap_version]
        ELSE slices[i]]

\* The `continue` with the null test inverted.
UpToDate_InvertedNull(slice, submap_msg) ==
  slice.surface = nullptr /\ slice.version = submap_msg.submap_version

\* The `continue` taken for every slice that has a surface.
UpToDate_IgnoresVersion(slice, submap_msg) == slice.surface # nullptr

\* Lines 142-143: the condition of the `continue`.
UpToDate(slice, submap_msg) ==
  slice.surface # nullptr /\ slice.version = submap_msg.submap_version

\* Line 153 forgotten: the slice keeps the version it had.
WriteVersion_Forgotten(slice, fetched) == slice

\* Line 153: the version of the response is written into the slice.
WriteVersion(slice, fetched) == [slice EXCEPT !.version = fetched.version]

\* Lines 165-167 forgotten: the fields are written, no surface is drawn.
WriteTexture_DrawsNothing(slice, fetched) ==
  LET fetched_texture == fetched.textures[1]
  IN [slice EXCEPT
        !.width = fetched_texture.width,
        !.height = fetched_texture.height,
        !.slice_pose = fetched_texture.slice_pose,
        !.resolution = fetched_texture.resolution,
        !.cairo_data = <<fetched_texture.pixels>>]

\* Lines 158-167: the first texture of the response is written and drawn.
WriteTexture(slice, fetched) ==
  LET fetched_texture == fetched.textures[1]
  IN [slice EXCEPT
        !.width = fetched_texture.width,
        !.height = fetched_texture.height,
        !.slice_pose = fetched_texture.slice_pose,
        !.resolution = fetched_texture.resolution,
        !.cairo_data = <<fetched_texture.pixels>>,
        !.surface = DrawTexture(fetched_texture.pixels, fetched_texture.width,
                                fetched_texture.height)]

\* The erase loop forgotten.
EraseAll_KeepsAll(slices, ids) == slices

\* Lines 171-173.
EraseAll(slices, ids) == [i \in (DOMAIN slices) \ ids |-> slices[i]]

(* ------------------------- the painted surface -------------------------- *)
\* unsigned char: the values of one byte of a packed pixel.
Bytes == 0..255

\* A packed 32 bit pixel of a cairo image surface, from its four bytes.  The
\* integers of the model checker are signed 32 bit numbers: bit 31 stays clear,
\* alpha ranges over 0..127.
Packed(alpha, color, observed, low) ==
  ((alpha * 256 + color) * 256 + observed) * 256 + low

\* What DrawTexture leaves in the surface of a slice is painted as one pixel:
\* its intensity is the content of the texture, it is observed, and where it
\* lands is a matter of the pose.
PaintedPixel(slice) == Packed(slice.pose % 128, slice.surface[1] % 256, 255, 0)

RECURSIVE PaintedPixels(_, _)
PaintedPixels(slices, i) ==
  IF i = NumSubmaps THEN <<>>
  ELSE LET id == <<0, i>>
       IN (IF id \in DOMAIN slices /\ slices[id].surface # nullptr
           THEN <<PaintedPixel(slices[id])>> ELSE <<>>)
          \o PaintedPixels(slices, i + 1)

\* PaintSubmapSlices (cartographer::io): a deterministic function of the slices
\* it is given; the painted surface is an image that holds what each drawn
\* slice contributes, in the order of the std::map.
PaintSubmapSlices(slices) ==
  LET pixels == PaintedPixels(slices, 0)
  IN [origin |-> <<Cardinality(DOMAIN slices), Len(pixels)>>,
      surface |-> [width |-> 1, height |-> Len(pixels), data |-> pixels]]

\* The local painted_slices outside its scope.
NotPainted ==
  [origin |-> <<0, 0>>, surface |-> [width |-> 0, height |-> 0, data |-> <<>>]]

(* ------------------------- PublishOccupancyGrid ------------------------- *)
\* FLAGS_resolution, the default of resolution_, in centimetres.
resolution_ == 5

\* Line 219 with the conversion to unsigned char left out.
Color_NotTruncated(packed) == packed \div 65536

\* Line 219: const unsigned char color = packed >> 16.
Color(packed) == (packed \div 65536) % 256

\* Line 220: const unsigned char observed = packed >> 8.
Observed(packed) == (packed \div 256) % 256

\* cartographer::common::RoundToInt (std::lround) of the quotient num / den,
\* den > 0: the nearest integer, halves away from zero.
RoundToInt(num, den) ==
  IF num >= 0 THEN (2 * num + den) \div (2 * den)
  ELSE -((den - 2 * num) \div (2 * den))

\* Line 223 without the `1. -`: the colour itself is scaled.
CellValue_NotInverted(packed) ==
  IF Observed(packed) = 0 THEN -1
  ELSE RoundToInt(Color(packed) * 100, 255)

\* Lines 221-224: the value of one cell.  (1. - color / 255.) * 100. is the
\* quotient (255 - color) * 100 / 255; no colour puts it within 1/510 of a
\* half, so rounding the double rounds the quotient.
CellValue(packed) ==
  IF Observed(packed) = 0 THEN -1
  ELSE RoundToInt((255 - Color(packed)) * 100, 255)

\* Lines 225-226: CHECK_LE(-1, value) and CHECK_GE(100, value).
CellChecks(value) == -1 <= value /\ value <= 100

\* Lines 217-228, the loop over x for one y: the cells of source row y,
\* pushed back from x on.
RECURSIVE RowCells(_, _, _)
RowCells(surface, y, x) ==
  IF x >= surface.width THEN <<>>
  ELSE <<CellValue(surface.data[y * surface.width + x + 1])>>
       \o RowCells(surface, y, x + 1)

\* The loop over y running upwards from row 0.
RECURSIVE GridCells_TopDown(_, _)
GridCells_TopDown(surface, y) ==
  IF y < 0 THEN <<>>
  ELSE GridCells_TopDown(surface, y - 1) \o RowCells(surface, y, 0)

\* Lines 216-229, the loop over y: the cells of the rows y, y - 1, .., 0.
RECURSIVE GridCells(_, _)
GridCells(surface, y) ==
  IF y < 0 THEN <<>>
  ELSE RowCells(surface, y, 0) \o GridCells(surface, y - 1)

\* Whether every CHECK of the loop passes.
GridChecks(surface) ==
  LET data == GridCells(surface, surface.height - 1)
  IN \A k \in 1..Len(data) : CellChecks(data[k])

\* Lines 190-231: the grid message built from the frame, the time, the origin
\* and the painted surface.
PublishOccupancyGrid(frame_id, time, origin, surface) ==
  [frame_id |-> frame_id, stamp |-> time, map_load_time |-> time,
   resolution |-> resolution_,
   width |-> surface.width, height |-> surface.height,
   origin_x |-> (-origin[1]) * resolution_,
   origin_y |-> (-surface.height + origin[2]) * resolution_,
   data |-> GridCells(surface, surface.height - 1)]

MsgIds(m) == {m.submap[k].id : k \in 1..Len(m.submap)}
Header(m) == [frame_id |-> m.frame_id, stamp |-> m.stamp]

NoCalls == [i \in SubmapIds |-> 0]
NoEntry ==
  [index |-> 0, entry |-> [id |-> <<0, 0>>, submap_version |-> 0, pose |-> 0],
   slice |-> FreshSlice, cached |-> FALSE, calls |-> 0]

\* A failed CHECK in either callback ends the process.
Running == hpc # "aborted" /\ tpc # "aborted"

(* ------------------------------- Init ---------------------------------- *)
Init ==
  /\ submap_slices_ = <<>>
  /\ last_frame_id_ = ""
  /\ last_timestamp_ = 0
  /\ mutex_ = "free"
  /\ hpc = "idle"
  /\ msg = NoMsg
  /\ idx = 0
  /\ submap_ids_to_delete = {}
  /\ fetched_textures = NullTextures
  /\ tpc = "idle"
  /\ painted_slices = NotPainted
  /\ published = <<>>
  /\ fetch_calls = NoCalls
  /\ entry_before = NoEntry
  /\ entry_outcome = "none"
  /\ fetch_failed = {}
  /\ retry_pending = {}
  /\ committed = [slices |-> <<>>, frame_id |-> "", stamp |-> 0]
  /\ delivered_header = [frame_id |-> "", stamp |-> 0]
  /\ reconciled_header = [frame_id |-> "", stamp |-> 0]
  /\ repeatable = <<>>
  /\ snapshot = <<>>
  /\ previous_grid = <<>>

(* ------------------------- HandleSubmapList ---------------------------- *)
\* Line 120: the subscription delivers a message, the callback is entered.
HandleDeliver ==
  /\ Running /\ hpc = "idle"
  /\ \E m \in SubmapLists : msg' = m
  /\ hpc' = "lock"
  /\ UNCHANGED <<tickHistory, progVars, mutex_, idx, submap_ids_to_delete, fetched_textures,
                 timerVars, entryHistory, callHistory, runHistory>>

\* Line 122: MutexLocker locker(&mutex_).
HandleLock ==
  /\ Running /\ hpc = "lock" /\ mutex_ = "free"
  /\ mutex_' = "handler"
  /\ hpc' = "subscribers"
  /\ previous_grid' = <<>>
  /\ UNCHANGED <<progVars, handlerLocals, timerVars, entryHistory, callHistory,
                 runHistory>>

\* The header remembered before the subscribers are counted.
HandleNoSubscribers_Stamps ==
  /\ Running /\ hpc = "subscribers"
  /\ hpc' = "no_subscribers"
  /\ last_timestamp_' = msg.stamp
  /\ last_frame_id_' = msg.frame_id
  /\ UNCHANGED <<tickHistory, submap_slices_, mutex_, handlerLocals, timerVars,
                 entryHistory, callHistory, runHistory>>

\* Lines 126-128: count_subscribers(kSubmapListTopic) == 0, return.
HandleNoSubscribers ==
  /\ Running /\ hpc = "subscribers"
  /\ hpc' = "no_subscribers"
  /\ UNCHANGED <<tickHistory, progVars, mutex_, handlerLocals, timerVars, entryHistory,
                 callHistory, runHistory>>

\* Lines 126-134: somebody listens; collect the ids currently cached.
HandleCollectIds ==
  /\ Running /\ hpc = "subscribers"
  /\ submap_ids_to_delete' = DOMAIN submap_slices_
  /\ idx' = 1
  /\ hpc' = "loop"
  /\ UNCHANGED <<tickHistory, progVars, mutex_, msg, fetched_textures, timerVars,
                 entryHistory, callHistory, runHistory>>

\* The loop body with a second `continue`, taken when the slice already
\* carries the metadata version of the entry.
HandleEntry_SkipsSeenVersion ==
  /\ Running /\ hpc = "loop" /\ idx <= Len(msg.submap)
  /\ LET submap_msg == msg.submap[idx]
         seen == SliceOf(submap_slices_, submap_msg.id).metadata_version
                   = submap_msg.submap_version
         slices == UpsertSlice(submap_slices_, submap_msg)
     IN /\ submap_ids_to_delete' = submap_ids_to_delete \ {submap_msg.id}
        /\ submap_slices_' = slices
        /\ entry_before' = [index |-> idx, entry |-> submap_msg,
                            slice |-> SliceOf(submap_slices_, submap_msg.id),
                            cached |-> submap_msg.id \in DOMAIN submap_slices_,
                            calls |-> fetch_calls[submap_msg.id]]
        /\ IF seen \/ UpToDate(slices[submap_msg.id], submap_msg)
           THEN idx' = idx + 1 /\ hpc' = "loop" /\ entry_outcome' = "up_to_date"
           ELSE idx' = idx /\ hpc' = "fetch" /\ entry_outcome' = "fetching"
  /\ UNCHANGED <<tickHistory, last_frame_id_, last_timestamp_, mutex_, msg, fetched_textures,
                 timerVars, callHistory, runHistory>>

\* Lines 136-145: one entry of msg->submap up to the version test.
HandleEntry ==
  /\ Running /\ hpc = "loop" /\ idx <= Len(msg.submap)
  /\ LET submap_msg == msg.submap[idx]
         slices == UpsertSlice(submap_slices_, submap_msg)
     IN /\ submap_ids_to_delete' = submap_ids_to_delete \ {submap_msg.id}
        /\ submap_slices_' = slices
        /\ entry_before' = [index |-> idx, entry |-> submap_msg,
                            slice |-> SliceOf(submap_slices_, submap_msg.id),
                            cached |-> submap_msg.id \in DOMAIN submap_slices_,
                            calls |-> fetch_calls[submap_msg.id]]
        /\ IF UpToDate(slices[submap_msg.id], submap_msg)
           THEN idx' = idx + 1 /\ hpc' = "loop" /\ entry_outcome' = "up_to_date"
           ELSE idx' = idx /\ hpc' = "fetch" /\ entry_outcome' = "fetching"
  /\ UNCHANGED <<tickHistory, last_frame_id_, last_timestamp_, mutex_, msg, fetched_textures,
                 timerVars, callHistory, runHistory>>

\* The failed fetch with the old surface dropped before the call.
HandleFetchUnavailable_DropsSurface ==
  /\ Running /\ hpc = "fetch"
  /\ LET id == msg.submap[idx].id
     IN /\ fetch_calls' = [fetch_calls EXCEPT ![id] = @ + 1]
        /\ fetch_failed' = fetch_failed \cup {id}
        /\ submap_slices_' = [submap_slices_ EXCEPT ![id].surface = nullptr,
                                                    ![id].cairo_data = <<>>]
  /\ entry_outcome' = "unavailable"
  /\ idx' = idx + 1
  /\ hpc' = "loop"
  /\ UNCHANGED <<tickHistory, last_frame_id_, last_timestamp_, mutex_, msg,
                 submap_ids_to_delete, fetched_textures, timerVars, entry_before,
                 runHistory>>

\* Lines 147-151: FetchSubmapTextures returned nullptr, continue.
HandleFetchUnavailable ==
  /\ Running /\ hpc = "fetch"
  /\ LET id == msg.submap[idx].id
     IN /\ fetch_calls' = [fetch_calls EXCEPT ![id] = @ + 1]
        /\ fetch_failed' = fetch_failed \cup {id}
  /\ entry_outcome' = "unavailable"
  /\ idx' = idx + 1
  /\ hpc' = "loop"
  /\ UNCHANGED <<tickHistory, progVars, mutex_, msg, submap_ids_to_delete, fetched_textures,
                 timerVars, entry_before, runHistory>>

\* The CHECK placed after line 153: the version is written before the abort.
HandleFetchEmpty_WritesVersion ==
  /\ Running /\ hpc = "fetch"
  /\ \E fetched \in FetchResults :
       /\ fetched.ok /\ fetched.textures = <<>>
       /\ fetched_textures' = fetched
       /\ LET id == msg.submap[idx].id
          IN /\ fetch_calls' = [fetch_calls EXCEPT ![id] = @ + 1]
             /\ submap_slices_' =
                  [submap_slices_ EXCEPT ![id].version = fetched.version]
  /\ entry_outcome' = "aborted"
  /\ hpc' = "aborted"
  /\ UNCHANGED <<tickHistory, last_frame_id_, last_timestamp_, mutex_, msg, idx,
                 submap_ids_to_delete, timerVars, entry_before, fetch_failed,
                 runHistory>>

\* Lines 147-152: FetchSubmapTextures returned a response without textures;
\* CHECK(!fetched_textures->textures.empty()) aborts the process.
HandleFetchEmpty ==
  /\ Running /\ hpc = "fetch"
  /\ \E fetched \in FetchResults :
       /\ fetched.ok /\ fetched.textures = <<>>
       /\ fetched_textures' = fetched
  /\ LET id == msg.submap[idx].id
     IN fetch_calls' = [fetch_calls EXCEPT ![id] = @ + 1]
  /\ entry_outcome' = "aborted"
  /\ hpc' = "aborted"
  /\ UNCHANGED <<tickHistory, progVars, mutex_, msg, idx, submap_ids_to_delete, timerVars,
                 entry_before, fetch_failed, runHistory>>

\* Lines 147-153: FetchSubmapTextures returned textures; the version of the
\* response is written.
HandleFetchTextures ==
  /\ Running /\ hpc = "fetch"
  /\ \E fetched \in FetchResults :
       /\ fetched.ok /\ fetched.textures # <<>>
       /\ fetched_textures' = fetched
       /\ LET id == msg.submap[idx].id
          IN /\ submap_slices_' =
                  [submap_slices_ EXCEPT
                     ![id] = WriteVersion(submap_slices_[id], fetched)]
             /\ fetch_calls' = [fetch_calls EXCEPT ![id] = @ + 1]
             /\ fetch_failed' = fetch_failed \ {id}
  /\ entry_outcome' = "textures"
  /\ hpc' = "texture"
  /\ UNCHANGED <<tickHistory, last_frame_id_, last_timestamp_, mutex_, msg, idx,
                 submap_ids_to_delete, timerVars, entry_before, runHistory>>

\* Lines 158-168: the first texture is written into the slice and drawn.
HandleDrawTexture ==
  /\ Running /\ hpc = "texture"
  /\ LET id == msg.submap[idx].id
     IN submap_slices_' =
          [submap_slices_ EXCEPT
             ![id] = WriteTexture(submap_slices_[id], fetched_textures)]
  /\ fetched_textures' = NullTextures
  /\ idx' = idx + 1
  /\ hpc' = "loop"
  /\ UNCHANGED <<tickHistory, last_frame_id_, last_timestamp_, mutex_, msg,
                 submap_ids_to_delete, timerVars, entryHistory, callHistory,
                 runHistory>>

\* Lines 170-173: the loop is over; erase what the message did not mention.
HandleErase ==
  /\ Running /\ hpc = "loop" /\ idx > Len(msg.submap)
  /\ submap_slices_' = EraseAll(submap_slices_, submap_ids_to_delete)
  /\ hpc' = "stamp"
  /\ UNCHANGED <<tickHistory, last_frame_id_, last_timestamp_, mutex_, handlerLocals,
                 timerVars, entryHistory, callHistory, runHistory>>

\* Line 175 forgotten: only the frame id is remembered.
HandleStamp_KeepsTime ==
  /\ Running /\ hpc = "stamp"
  /\ last_timestamp_' = last_timestamp_
  /\ last_frame_id_' = msg.frame_id
  /\ hpc' = "reconciled"
  /\ UNCHANGED <<tickHistory, submap_slices_, mutex_, handlerLocals, timerVars, entryHistory,
                 callHistory, runHistory>>

\* Lines 175-176: the header of the message is remembered.
HandleStamp ==
  /\ Running /\ hpc = "stamp"
  /\ last_timestamp_' = msg.stamp
  /\ last_frame_id_' = msg.frame_id
  /\ hpc' = "reconciled"
  /\ UNCHANGED <<tickHistory, submap_slices_, mutex_, handlerLocals, timerVars, entryHistory,
                 callHistory, runHistory>>

\* The call was reconciled, found the cache empty, and fetched every id of its
\* message once, with success.
FilledEmptyCache ==
  /\ hpc = "reconciled"
  /\ DOMAIN committed.slices = {}
  /\ fetch_failed = {}
  /\ \A id \in MsgIds(msg) : fetch_calls[id] = 1

\* Lines 127 and 177: the call returns, the locker releases mutex_ and the
\* locals go out of scope.
HandleReturn ==
  /\ Running /\ hpc \in {"no_subscribers", "reconciled"}
  /\ mutex_' = "free"
  /\ hpc' = "idle"
  /\ msg' = NoMsg
  /\ idx' = 0
  /\ submap_ids_to_delete' = {}
  /\ fetched_textures' = NullTextures
  /\ fetch_calls' = NoCalls
  /\ fetch_failed' = {}
  /\ entry_before' = NoEntry
  /\ entry_outcome' = "none"
  /\ retry_pending' = IF hpc = "reconciled"
                      THEN (retry_pending \ MsgIds(msg)) \cup fetch_failed
                      ELSE retry_pending
  /\ committed' = [slices |-> submap_slices_, frame_id |-> last_frame_id_,
                   stamp |-> last_timestamp_]
  /\ delivered_header' = Header(msg)
  /\ reconciled_header' = IF hpc = "reconciled" THEN Header(msg)
                          ELSE reconciled_header
  /\ repeatable' = IF FilledEmptyCache THEN <<msg>> ELSE <<>>
  /\ UNCHANGED <<tickHistory, progVars, timerVars>>

HandleSubmapList ==
  \/ HandleDeliver \/ HandleLock \/ HandleNoSubscribers \/ HandleCollectIds
  \/ HandleEntry \/ HandleFetchUnavailable \/ HandleFetchEmpty
  \/ HandleFetchTextures \/ HandleDrawTexture \/ HandleErase \/ HandleStamp
  \/ HandleReturn

(* --------------------------- DrawAndPublish ---------------------------- *)
\* Line 181 reads submap_slices_ and then last_frame_id_ without holding
\* mutex_.  Each read races with the writes of HandleSubmapList and yields the
\* value before or after the racing write: the value the field holds at the
\* step of the read.

\* Lines 181-182: submap_slices_.empty(), return.
DrawSkipEmpty ==
  /\ Running /\ tpc = "idle"
  /\ DOMAIN submap_slices_ = {}
  /\ UNCHANGED vars

\* Line 181: submap_slices_ is not empty, last_frame_id_ is read next.
DrawNotEmpty ==
  /\ Running /\ tpc = "idle"
  /\ DOMAIN submap_slices_ # {}
  /\ tpc' = "frame"
  /\ UNCHANGED <<tickHistory, progVars, mutex_, handlerVars, painted_slices, published,
                 snapshot, entryHistory, callHistory, runHistory>>

\* Lines 181-182: last_frame_id_.empty(), return.
DrawSkipNoFrame ==
  /\ Running /\ tpc = "frame"
  /\ last_frame_id_ = ""
  /\ tpc' = "idle"
  /\ UNCHANGED <<tickHistory, progVars, mutex_, handlerVars, painted_slices, published,
                 snapshot, entryHistory, callHistory, runHistory>>

\* Line 181: the test fails, the tick goes on to take the lock.
DrawProceed ==
  /\ Running /\ tpc = "frame"
  /\ last_frame_id_ # ""
  /\ tpc' = "lock"
  /\ UNCHANGED <<tickHistory, progVars, mutex_, handlerVars, painted_slices, published,
                 snapshot, entryHistory, callHistory, runHistory>>

\* The tick going on without waiting for mutex_.
DrawLock_DoesNotWait ==
  /\ Running /\ tpc = "lock"
  /\ mutex_' = "timer"
  /\ tpc' = "paint"
  /\ UNCHANGED <<tickHistory, progVars, handlerVars, painted_slices, published, snapshot,
                 entryHistory, callHistory, runHistory>>

\* Line 184: MutexLocker locker(&mutex_).
DrawLock ==
  /\ Running /\ tpc = "lock" /\ mutex_ = "free"
  /\ mutex_' = "timer"
  /\ tpc' = "paint"
  /\ UNCHANGED <<tickHistory, progVars, handlerVars, painted_slices, published, snapshot,
                 entryHistory, callHistory, runHistory>>

\* Line 185: PaintSubmapSlices(submap_slices_, resolution_).
DrawPaint ==
  /\ Running /\ tpc = "paint"
  /\ painted_slices' = PaintSubmapSlices(submap_slices_)
  /\ snapshot' = submap_slices_
  /\ tpc' = "publish"
  /\ UNCHANGED <<tickHistory, progVars, mutex_, handlerVars, published, entryHistory,
                 callHistory, runHistory>>

\* Lines 186-187: PublishOccupancyGrid builds the grid and publishes it, or
\* a CHECK of a cell value aborts the process.
DrawPublish ==
  /\ Running /\ tpc = "publish"
  /\ IF GridChecks(painted_slices.surface)
     THEN /\ published' = <<PublishOccupancyGrid(last_frame_id_, last_timestamp_,
                                                 painted_slices.origin,
                                                 painted_slices.surface)>>
          /\ tpc' = "return"
     ELSE /\ published' = published
          /\ tpc' = "aborted"
  /\ UNCHANGED <<tickHistory, progVars, mutex_, handlerVars, painted_slices, snapshot,
                 entryHistory, callHistory, runHistory>>

\* The surfaces moved out of the slices by the tick that painted them.
DrawReturn_DropsSurfaces ==
  /\ Running /\ tpc = "return"
  /\ mutex_' = "free"
  /\ tpc' = "idle"
  /\ painted_slices' = NotPainted
  /\ published' = <<>>
  /\ snapshot' = <<>>
  /\ previous_grid' = published
  /\ submap_slices_' = [id \in DOMAIN submap_slices_ |->
                          [submap_slices_[id] EXCEPT !.surface = nullptr]]
  /\ UNCHANGED <<last_frame_id_, last_timestamp_, handlerVars, entryHistory,
                 callHistory, runHistory>>

\* The tick returning with mutex_ still locked.
DrawReturn_KeepsLock ==
  /\ Running /\ tpc = "return"
  /\ tpc' = "idle"
  /\ painted_slices' = NotPainted
  /\ published' = <<>>
  /\ snapshot' = <<>>
  /\ previous_grid' = published
  /\ UNCHANGED <<progVars, mutex_, handlerVars, entryHistory, callHistory,
                 runHistory>>

\* Line 188: the call returns, the locker releases mutex_.
DrawReturn ==
  /\ Running /\ tpc = "return"
  /\ mutex_' = "free"
  /\ tpc' = "idle"
  /\ painted_slices' = NotPainted
  /\ published' = <<>>
  /\ snapshot' = <<>>
  /\ previous_grid' = published
  /\ UNCHANGED <<progVars, handlerVars, entryHistory, callHistory, runHistory>>

DrawAndPublish ==
  \/ DrawSkipEmpty \/ DrawNotEmpty \/ DrawSkipNoFrame \/ DrawProceed
  \/ DrawLock \/ DrawPaint \/ DrawPublish \/ DrawReturn

(* ------------------------------- Spec ---------------------------------- *)
Next == HandleSubmapList \/ DrawAndPublish

Spec == Init /\ [][Next]_vars

(* ------------------------------ properties ----------------------------- *)
\* The call has done its work and is about to return.
Returning == hpc \in {"no_subscribers", "reconciled"}

\* The entries of the running message name pairwise different ids.
DistinctIds == Cardinality(MsgIds(msg)) = Len(msg.submap)

\* id has no surface in the slices, or the running message presents it with a
\* version other than the one the slices hold.
Stale(slices, id) ==
  LET slice == SliceOf(slices, id)
  IN \/ slice.surface = nullptr
     \/ \E k \in 1..Len(msg.submap) :
          /\ msg.submap[k].id = id
          /\ msg.submap[k].submap_version # slice.version

\* C1 as stated: whenever HandleSubmapList returns for a message, the keys of
\* submap_slices_ are exactly the ids of that message.
C1_KeysAreBatchIdsOnEveryReturn ==
  Returning => DOMAIN submap_slices_ = MsgIds(msg)

\* C1 amended: when HandleSubmapList returns for a message it reconciled (it
\* found a subscriber), the keys of submap_slices_ are exactly the ids of that
\* message; when it returns because nobody listens, the keys are those the
\* previous call left.
C1_ReconciliationCompleteness ==
  /\ hpc = "reconciled" => DOMAIN submap_slices_ = MsgIds(msg)
  /\ hpc = "no_subscribers" => DOMAIN submap_slices_ = DOMAIN committed.slices

\* A reconciled message that dropped a cached id and brought a new one.
C1_Witness ==
  /\ hpc = "reconciled"
  /\ (DOMAIN committed.slices) \ MsgIds(msg) # {}
  /\ MsgIds(msg) \ (DOMAIN committed.slices) # {}

\* C2: an entry that finds its id with a surface and with the version the
\* entry carries issues no fetch and leaves the fetched fields of the slice
\* (version, width, height, slice_pose, resolution, surface) as they were.
C2_FetchMinimality ==
  (/\ entry_outcome # "none"
   /\ entry_before.slice.surface # nullptr
   /\ entry_before.slice.version = entry_before.entry.submap_version)
  => /\ entry_outcome = "up_to_date"
     /\ fetch_calls[entry_before.entry.id] = entry_before.calls
     /\ entry_before.entry.id \in DOMAIN submap_slices_
     /\ Raster(submap_slices_[entry_before.entry.id]) = Raster(entry_before.slice)

\* An entry was skipped although it moved the metadata version of its slice.
C2_Witness ==
  /\ entry_outcome = "up_to_date"
  /\ entry_before.slice.metadata_version # entry_before.entry.submap_version
  /\ fetch_calls[entry_before.entry.id] = 0

\* C3 as stated: whenever HandleSubmapList returns for a message, every id of
\* the message that had no surface, or is presented with a version other than
\* the cached one, was fetched exactly once during the call.
C3_StaleIdsFetchedOnceOnEveryReturn ==
  Returning =>
    \A id \in MsgIds(msg) :
      Stale(committed.slices, id) => fetch_calls[id] = 1

\* C3 amended: the same for the messages HandleSubmapList reconciles (it found
\* a subscriber) and that name every id at most once.
C3_FetchNecessity ==
  (hpc = "reconciled" /\ DistinctIds) =>
    \A id \in MsgIds(msg) :
      Stale(committed.slices, id) => fetch_calls[id] = 1

\* A reconciled message of two ids: one had no surface, the other a surface
\* of another version; each was fetched once.
C3_Witness ==
  /\ hpc = "reconciled" /\ DistinctIds
  /\ \E a, b \in MsgIds(msg) :
       /\ SliceOf(committed.slices, a).surface = nullptr
       /\ SliceOf(committed.slices, b).surface # nullptr
       /\ Stale(committed.slices, b)
       /\ fetch_calls[a] = 1 /\ fetch_calls[b] = 1

\* C4: the slices a tick gives to the compositor, and the frame id and time
\* it stamps the grid with, are the state the last completed call of
\* HandleSubmapList left (the state of construction before the first); no
\* call is between its first write and its return while the tick holds them.
C4_RenderSeesCompletedPass ==
  (tpc \in {"publish", "return"}) =>
    /\ hpc \in {"idle", "lock"}
    /\ snapshot = committed.slices
    /\ last_frame_id_ = committed.frame_id
    /\ last_timestamp_ = committed.stamp
    /\ tpc = "return" =>
         /\ published # <<>>
         /\ published[1].frame_id = committed.frame_id
         /\ published[1].stamp = committed.stamp
         /\ published[1].data =
              LET painted == PaintSubmapSlices(committed.slices)
              IN PublishOccupancyGrid(committed.frame_id, committed.stamp,
                                      painted.origin, painted.surface).data

\* A tick has painted reconciled slices while the next message waits for
\* mutex_.
C4_Witness ==
  /\ tpc = "publish" /\ hpc = "lock"
  /\ Cardinality(DOMAIN snapshot) = 2
  /\ \E id \in DOMAIN snapshot : snapshot[id].surface # nullptr

\* C5: a tick that reaches the compositor, or publishes, holds slices that are
\* not empty and a frame id that is not empty.
C5_RenderSkip ==
  (tpc \in {"publish", "return"}) =>
    /\ DOMAIN snapshot # {}
    /\ last_frame_id_ # ""

\* C6: after FetchSubmapTextures returned nullptr for an entry, the fetched
\* fields of the slice are what the entry found, the process has not aborted,
\* and the loop has moved on to the next entry; a call that reaches its
\* return has visited every entry.  A slice whose only fetch of the call
\* failed holds the fetched fields it held before the call.
C6_FetchFailureKeepsRaster ==
  /\ entry_outcome = "unavailable" =>
       /\ hpc \in {"loop", "stamp", "reconciled"}
       /\ idx = entry_before.index + 1
       /\ entry_before.entry.id \in DOMAIN submap_slices_
       /\ Raster(submap_slices_[entry_before.entry.id]) = Raster(entry_before.slice)
  /\ hpc \in {"stamp", "reconciled"} => idx = Len(msg.submap) + 1
  /\ \A id \in fetch_failed :
       fetch_calls[id] = 1 =>
         /\ id \in DOMAIN submap_slices_
         /\ Raster(submap_slices_[id]) = Raster(SliceOf(committed.slices, id))

\* The fetch of the first entry failed and left the surface it found; the
\* second entry was then fetched and drawn, and the call reached its return.
C6_Witness ==
  /\ hpc = "reconciled" /\ Len(msg.submap) = 2 /\ DistinctIds
  /\ msg.submap[1].id \in fetch_failed
  /\ SliceOf(committed.slices, msg.submap[1].id).surface # nullptr
  /\ submap_slices_[msg.submap[1].id].surface # nullptr
  /\ entry_outcome = "textures" /\ entry_before.index = 2

\* C7 as stated: when HandleSubmapList returns for a message that names an id
\* whose last fetch failed, it has fetched that id again.
C7_RetryOnEveryReturn ==
  Returning =>
    \A id \in retry_pending \cap MsgIds(msg) : fetch_calls[id] >= 1

\* C7 amended: when HandleSubmapList has reconciled a message that names an id
\* whose last fetch failed, it has fetched that id again, unless the id still
\* holds a surface and every entry naming it carries the version of that
\* surface.
C7_RetryAfterFailure ==
  hpc = "reconciled" =>
    \A id \in retry_pending \cap MsgIds(msg) :
      Stale(committed.slices, id) => fetch_calls[id] >= 1

\* An id whose fetch failed kept its surface and is fetched again by the
\* next reconciled message naming it.
C7_Witness ==
  /\ hpc = "reconciled"
  /\ \E id \in retry_pending \cap MsgIds(msg) :
       /\ SliceOf(committed.slices, id).surface # nullptr
       /\ fetch_calls[id] = 1

\* C8 as stated: when the CHECK at line 152 aborts, the slices hold for the id
\* of the entry exactly what they held before the call: no slice created, no
\* field changed.
C8_AbortLeavesEntryUntouched ==
  hpc = "aborted" =>
    LET id == msg.submap[idx].id
    IN /\ id \in DOMAIN submap_slices_ <=> id \in DOMAIN committed.slices
       /\ id \in DOMAIN committed.slices =>
            submap_slices_[id] = committed.slices[id]

\* C8 amended: a response without textures aborts the process, and at the
\* abort the fetched fields of the slice (version, width, height, slice_pose,
\* resolution, surface) are what the entry found (the defaults for a new id);
\* the slice exists, and its pose and metadata_version are the entry's.
C8_AbortKeepsRaster ==
  /\ (fetched_textures.ok /\ fetched_textures.textures = <<>>) => hpc = "aborted"
  /\ hpc = "aborted" =>
       LET id == msg.submap[idx].id
       IN /\ entry_outcome = "aborted"
          /\ fetched_textures.ok /\ fetched_textures.textures = <<>>
          /\ entry_before.index = idx
          /\ id \in DOMAIN submap_slices_
          /\ Raster(submap_slices_[id]) = Raster(entry_before.slice)
          /\ submap_slices_[id].pose = msg.submap[idx].pose
          /\ submap_slices_[id].metadata_version = msg.submap[idx].submap_version
          /\ \A other \in SubmapIds \ {msg.submap[k].id : k \in 1..idx} :
               /\ other \in DOMAIN submap_slices_ <=>
                    other \in DOMAIN committed.slices
               /\ other \in DOMAIN committed.slices =>
                    submap_slices_[other] = committed.slices[other]

\* The abort hit an id that was cached with a surface and whose pose or
\* metadata version the entry had already overwritten.
C8_Witness ==
  /\ hpc = "aborted"
  /\ msg.submap[idx].id \in DOMAIN committed.slices
  /\ committed.slices[msg.submap[idx].id].surface # nullptr
  /\ submap_slices_[msg.submap[idx].id] # committed.slices[msg.submap[idx].id]

\* The fetched fields of a slice all come from the response of version v.
FetchedAt(slice, v) ==
  /\ slice.version = v
  /\ slice.width = Texture(v).width
  /\ slice.height = Texture(v).height
  /\ slice.slice_pose = Texture(v).slice_pose
  /\ slice.resolution = Texture(v).resolution
  /\ slice.cairo_data = <<Texture(v).pixels>>
  /\ slice.surface = <<Texture(v).pixels, Texture(v).width, Texture(v).height>>

\* Every slice that has a surface holds the fields of one response.
Unmixed(slices) ==
  \A id \in DOMAIN slices :
    slices[id].surface # nullptr => \E v \in Versions : FetchedAt(slices[id], v)

\* C9: whenever HandleSubmapList does not hold mutex_, and in the slices a
\* tick gives to the compositor, every slice with a surface has its version,
\* width, height, slice_pose and resolution from the response that surface
\* was drawn from.
C9_AtomicRaster ==
  /\ mutex_ # "handler" => Unmixed(submap_slices_)
  /\ tpc \in {"publish", "return"} => Unmixed(snapshot)

\* A tick painted a slice whose surface was replaced by a later version than
\* the one its notification carried.
C9_Witness ==
  /\ tpc = "publish"
  /\ \E id \in DOMAIN snapshot :
       /\ snapshot[id].surface # nullptr
       /\ snapshot[id].version = 2
       /\ snapshot[id].metadata_version = 1

\* C10 as stated: a published grid carries the frame id and the time of the
\* last message whose HandleSubmapList call returned before the tick took
\* its snapshot.
C10_StampOfLastDeliveredMessage ==
  tpc = "return" =>
    /\ published[1].frame_id = delivered_header.frame_id
    /\ published[1].stamp = delivered_header.stamp

\* C10 amended: a published grid carries the frame id and the time of the
\* last message HandleSubmapList reconciled before the tick took its
\* snapshot (the empty frame id and time 0 when there is none); the fields
\* hold that header from the return of the call on, whatever is delivered
\* and ignored in between.
C10_PublishedStamp ==
  /\ tpc = "return" =>
       /\ published[1].frame_id = reconciled_header.frame_id
       /\ published[1].stamp = reconciled_header.stamp
       /\ published[1].map_load_time = reconciled_header.stamp
  /\ hpc \in {"idle", "lock", "subscribers", "no_subscribers"} =>
       /\ last_frame_id_ = reconciled_header.frame_id
       /\ last_timestamp_ = reconciled_header.stamp

\* A grid is published with the header of the reconciled message although a
\* later message with another header was delivered and ignored.
C10_Witness ==
  /\ tpc = "return"
  /\ published[1].frame_id = "map"
  /\ delivered_header = [frame_id |-> "", stamp |-> 1]
  /\ DOMAIN snapshot # {}

(* ================== PublishOccupancyGrid on its own ==================== *)
\* PublishOccupancyGrid is a function of its arguments.  SpecGrid starts a
\* tick at line 186 with any frame id, any time and any painted surface of
\* the sets below, and lets it publish.

\* Pixels with every colour byte, with the other three bytes at their ends
\* and in between.
ObservedSamples == {0, 1, 128, 255}
AlphaSamples == {0, 127}
LowSamples == {0, 255}
AllPixels ==
  {Packed(alpha, color, observed, low) :
     alpha \in AlphaSamples, color \in Bytes, observed \in ObservedSamples,
     low \in LowSamples}

\* A free cell, an occupied cell and an unknown cell.
GridPixels ==
  {Packed(127, 255, 255, 0), Packed(127, 0, 255, 0), Packed(0, 128, 0, 0)}

\* The surfaces: one pixel of any kind, or up to MaxWidth x MaxHeight pixels
\* of the three kinds.
Surfaces ==
  {[width |-> 1, height |-> 1, data |-> <<p>>] : p \in AllPixels}
  \cup UNION {UNION {{[width |-> w, height |-> h, data |-> d] :
                        d \in [1..(w * h) -> GridPixels]} :
                     h \in 0..MaxHeight} :
              w \in 0..MaxWidth}

Origins == {<<0, 0>>, <<1, 2>>}

InitGrid ==
  /\ submap_slices_ = <<>>
  /\ last_frame_id_ \in FrameIds
  /\ last_timestamp_ \in Stamps
  /\ mutex_ = "timer"
  /\ hpc = "idle"
  /\ msg = NoMsg
  /\ idx = 0
  /\ submap_ids_to_delete = {}
  /\ fetched_textures = NullTextures
  /\ tpc = "publish"
  /\ painted_slices \in {[origin |-> o, surface |-> sf] :
                           o \in Origins, sf \in Surfaces}
  /\ published = <<>>
  /\ fetch_calls = NoCalls
  /\ entry_before = NoEntry
  /\ entry_outcome = "none"
  /\ fetch_failed = {}
  /\ retry_pending = {}
  /\ committed = [slices |-> <<>>, frame_id |-> "", stamp |-> 0]
  /\ delivered_header = [frame_id |-> "", stamp |-> 0]
  /\ reconciled_header = [frame_id |-> "", stamp |-> 0]
  /\ repeatable = <<>>
  /\ snapshot = <<>>
  /\ previous_grid = <<>>

NextGrid == DrawPublish

SpecGrid == InitGrid /\ [][NextGrid]_vars

\* The given surface and the grid made of it, once the tick has published.
Pixel(row, column) ==
  painted_slices.surface.data[row * painted_slices.surface.width + column + 1]
Cell(i, x) == published[1].data[i * painted_slices.surface.width + x + 1]
Rows == 0..(painted_slices.surface.height - 1)
Columns == 0..(painted_slices.surface.width - 1)

\* Bits from..(from + 7) of a packed pixel.
BitsFrom(packed, from) == (packed \div (2 ^ from)) % 256

\* v is the integer nearest to (1 - color / 255) * 100.
Nearest(v, color) ==
  LET d == 255 * v - (255 - color) * 100
  IN 2 * d <= 255 /\ 2 * (-d) <= 255

\* C11: every emitted cell is -1 when bits 8..15 of its pixel are 0, whatever
\* bits 16..23 are, and otherwise the integer nearest to
\* (1 - color / 255) * 100 with color = bits 16..23; color 255 gives 0 and
\* color 0 gives 100.
C11_CellQuantization ==
  tpc = "return" =>
    \A i \in Rows, x \in Columns :
      LET packed == Pixel(painted_slices.surface.height - 1 - i, x)
          color == BitsFrom(packed, 16)
          observed == BitsFrom(packed, 8)
          value == Cell(i, x)
      IN /\ observed = 0 => value = -1
         /\ observed # 0 => Nearest(value, color)
         /\ observed # 0 /\ color = 255 => value = 0
         /\ observed # 0 /\ color = 0 => value = 100

\* A pixel with colour 128, observed 1 and the bits around them set was published
\* as 50.
C11_Witness ==
  /\ tpc = "return"
  /\ painted_slices.surface.data = <<Packed(127, 128, 1, 255)>>
  /\ published[1].data = <<50>>

\* C12: no surface makes a range CHECK fail, and every emitted cell lies in
\* -1..100, the cell of an observed pixel in 0..100.
C12_QuantizationRange ==
  /\ tpc # "aborted"
  /\ tpc = "return" =>
       \A i \in Rows, x \in Columns :
         /\ Cell(i, x) \in -1..100
         /\ BitsFrom(Pixel(painted_slices.surface.height - 1 - i, x), 8) # 0
              => Cell(i, x) \in 0..100

\* Pixels at both ends of the range, with the bits above the colour set, were
\* published.
C12_Witness ==
  /\ tpc = "return"
  /\ painted_slices.surface.width = 2 /\ painted_slices.surface.height = 1
  /\ painted_slices.surface.data = <<Packed(127, 0, 255, 0), Packed(127, 255, 255, 0)>>
  /\ published[1].data = <<100, 0>>

\* C13: the grid has width * height cells, and cell i * width + x is the
\* quantization of the pixel in row height - 1 - i and column x of the
\* surface.
C13_VerticalFlip ==
  tpc = "return" =>
    LET w == painted_slices.surface.width
        h == painted_slices.surface.height
        data == published[1].data
    IN /\ Len(data) = w * h
       /\ published[1].width = w /\ published[1].height = h
       /\ \A i \in 0..(h - 1), x \in 0..(w - 1) :
            data[i * w + x + 1] =
              CellValue(painted_slices.surface.data[(h - 1 - i) * w + x + 1])

\* A surface of two rows that differ, each with two cells that differ, was
\* published last row first.
C13_Witness ==
  /\ tpc = "return"
  /\ painted_slices.surface.width = 2 /\ painted_slices.surface.height = 2
  /\ painted_slices.surface.data =
       <<Packed(127, 255, 255, 0), Packed(127, 0, 255, 0),
         Packed(0, 128, 0, 0), Packed(127, 255, 255, 0)>>
  /\ published[1].data = <<-1, 0, 0, 100>>

(* ========================== the main model again ======================== *)
\* C14: a tick that follows another tick, with no call of HandleSubmapList
\* having held mutex_ in between, publishes the grid the other tick
\* published: the same frame id, time, width, height, origin and cells.
C14_IdempotentPublish ==
  (tpc = "return" /\ previous_grid # <<>>) => published = previous_grid

\* A second tick in a row has published a grid with a cell in it.
C14_Witness ==
  /\ tpc = "return"
  /\ previous_grid # <<>>
  /\ published # <<>>
  /\ Len(published[1].data) > 0
  /\ published[1].frame_id = "map"

\* C15: during one call of HandleSubmapList no id is fetched more than once,
\* whatever the message, a message that names an id in several entries
\* included.
C15_AtMostOneFetchPerId ==
  \A id \in SubmapIds : fetch_calls[id] <= 1

\* C16 as stated: a call that finds the cache empty fetches every id of its
\* message once, and a call with the message of the call before it, that call
\* having found the cache empty and all its fetches having succeeded, fetches
\* nothing.
C16_RepeatFetchesNothing ==
  Returning =>
    /\ DOMAIN committed.slices = {} =>
         \A id \in MsgIds(msg) : fetch_calls[id] = 1
    /\ repeatable = <<msg>> => fetch_calls = NoCalls

\* Every entry of the running message carries the version the cache held for
\* its id when the call began.
VersionsAsCached ==
  \A k \in 1..Len(msg.submap) :
    SliceOf(committed.slices, msg.submap[k].id).version
      = msg.submap[k].submap_version

\* The number of entries of the running message that name id.
TimesNamed(id) == Cardinality({k \in 1..Len(msg.submap) : msg.submap[k].id = id})

\* C16 amended: a reconciled call that finds the cache empty fetches every id
\* of its message at least once, and once if the message names it once; and a
\* call with the message of the call before it, that call having been
\* reconciled from an empty cache with one successful fetch per id, fetches
\* nothing if every fetch had returned the version the entries of its id
\* carry.
C16_RepeatBatch ==
  /\ (hpc = "reconciled" /\ DOMAIN committed.slices = {}) =>
       \A id \in MsgIds(msg) :
         /\ fetch_calls[id] >= 1
         /\ TimesNamed(id) = 1 => fetch_calls[id] = 1
  /\ (Returning /\ repeatable = <<msg>> /\ VersionsAsCached) =>
       fetch_calls = NoCalls

\* The message (0,0) v1, (0,1) v1 has been reconciled a second time, after a
\* first time that filled the empty cache, without a fetch.
C16_Witness ==
  /\ hpc = "reconciled"
  /\ repeatable = <<msg>>
  /\ VersionsAsCached
  /\ Len(msg.submap) = 2
  /\ msg.submap[1].id = <<0, 0>> /\ msg.submap[1].submap_version = 1
  /\ msg.submap[2].id = <<0, 1>> /\ msg.submap[2].submap_version = 1
  /\ DOMAIN submap_slices_ = {<<0, 0>>, <<0, 1>>}
  /\ fetch_calls = NoCalls

\* C17 as stated: while a record stays in submap_slices_, no step lowers its
\* metadata_version.
C17_MetadataVersionNeverDecreases ==
  [][\A id \in (DOMAIN submap_slices_) \cap (DOMAIN submap_slices_') :
       submap_slices_'[id].metadata_version
         >= submap_slices_[id].metadata_version]_vars

\* The step is lines 136-145 for the entry at idx.
EntryStep ==
  /\ hpc = "loop" /\ idx <= Len(msg.submap)
  /\ hpc' = "fetch" \/ idx' = idx + 1

\* C17 amended: the metadata_version of a record changes only when an entry
\* for its id is processed, and then becomes the submap_version of that
\* entry, lower than the one held or not.
C17_MetadataVersionFollowsEntries ==
  [][/\ \A id \in (DOMAIN submap_slices_) \cap (DOMAIN submap_slices_') :
          submap_slices_'[id].metadata_version
            # submap_slices_[id].metadata_version
          => EntryStep /\ id = msg.submap[idx].id
     /\ EntryStep =>
          /\ msg.submap[idx].id \in DOMAIN submap_slices_'
          /\ submap_slices_'[msg.submap[idx].id].metadata_version
               = msg.submap[idx].submap_version]_vars

\* An entry with version 1 has been processed for a record that the call
\* before had left with metadata_version 2, and that is still cached.
C17_Witness ==
  /\ hpc \in {"loop", "fetch"}
  /\ entry_before.entry.id \in DOMAIN committed.slices
  /\ committed.slices[entry_before.entry.id].metadata_version = 2
  /\ entry_outcome \in {"up_to_date", "fetching"}
  /\ entry_before.index \in {idx, idx - 1}
  /\ entry_before.cached
  /\ entry_before.slice.metadata_version = 2
  /\ entry_before.entry.submap_version = 1
  /\ entry_before.entry.id \in DOMAIN submap_slices_
  /\ submap_slices_[entry_before.entry.id].metadata_version = 1

\* C18: PublishOccupancyGrid runs after mutex_ is released: no grid is handed
\* to the publisher while the tick holds mutex_.
C18_PublishOutsideLock ==
  published # <<>> => mutex_ # "timer"

\* C19: a call that finds no subscriber has, when it returns, fetched
\* nothing and left submap_slices_, last_frame_id_ and last_timestamp_ as the
\* call before it left them.
C19_NoSubscriberNoEffect ==
  hpc = "no_subscribers" =>
    /\ fetch_calls = NoCalls
    /\ submap_slices_ = committed.slices
    /\ last_frame_id_ = committed.frame_id
    /\ last_timestamp_ = committed.stamp

\* A call returns for lack of subscribers with a message that names a new id,
\* presents a cached id with a new version, leaves a cached id out and has
\* another header.
C19_Witness ==
  /\ hpc = "no_subscribers"
  /\ DOMAIN submap_slices_ = {<<0, 0>>}
  /\ submap_slices_[<<0, 0>>].surface # nullptr
  /\ last_frame_id_ = "map"
  /\ msg.frame_id = ""
  /\ \E k \in 1..Len(msg.submap) : msg.submap[k].id = <<0, 1>>
  /\ \A k \in 1..Len(msg.submap) : msg.submap[k].id # <<0, 0>>

(* ============================== progress ================================ *)
\* A callback that has begun goes on: its next statement is executed.  A
\* callback that waits for mutex_ gets it if mutex_ is free again and again.
\* Nothing obliges the subscription to deliver or the timer to find the
\* cache filled.
HandlerStep ==
  \/ HandleNoSubscribers \/ HandleCollectIds \/ HandleEntry
  \/ HandleFetchUnavailable \/ HandleFetchEmpty \/ HandleFetchTextures
  \/ HandleDrawTexture \/ HandleErase \/ HandleStamp \/ HandleReturn

TimerStep ==
  \/ DrawSkipNoFrame \/ DrawProceed \/ DrawPaint \/ DrawPublish \/ DrawReturn

\* The messages of the progress check: those of at most one entry, and one
\* of two entries that name the same id.
ProgressLists ==
  {m \in SubmapLists :
     \/ Len(m.submap) <= 1
     \/ m.frame_id = "map" /\ \A k \in 1..Len(m.submap) : m.submap[k].id = <<0, 0>>}

\* Line 120 for the messages of the progress check.
HandleDeliverProgress ==
  /\ Running /\ hpc = "idle"
  /\ \E m \in ProgressLists : msg' = m
  /\ hpc' = "lock"
  /\ UNCHANGED <<tickHistory, progVars, mutex_, idx, submap_ids_to_delete,
                 fetched_textures, timerVars, entryHistory, callHistory,
                 runHistory>>

NextProgress ==
  \/ HandleDeliverProgress \/ HandleLock \/ HandlerStep
  \/ DrawSkipEmpty \/ DrawNotEmpty \/ DrawLock \/ TimerStep

FairSpec ==
  /\ Init /\ [][NextProgress]_vars
  /\ WF_vars(HandlerStep) /\ WF_vars(TimerStep)
  /\ SF_vars(HandleLock) /\ SF_vars(DrawLock)

\* C20 as stated: unless a CHECK fails, a callback that holds mutex_ releases
\* it, a tick that waits for mutex_ paints, and a message that waits for
\* mutex_ is reconciled.
C20_WaitingMessageIsReconciled ==
  /\ (mutex_ = "handler") ~> (mutex_ # "handler" \/ ~Running)
  /\ (mutex_ = "timer") ~> (mutex_ # "timer" \/ ~Running)
  /\ (tpc = "lock") ~> (tpc = "paint" \/ ~Running)
  /\ (hpc = "lock") ~> (hpc = "reconciled" \/ ~Running)

\* C20 amended: unless a CHECK fails, a callback that holds mutex_ releases
\* it, a tick that waits for mutex_ paints, and the call for a message that
\* waits for mutex_ comes to its return, the message reconciled or, for lack
\* of subscribers, ignored.
C20_Progress ==
  /\ (mutex_ = "handler") ~> (mutex_ # "handler" \/ ~Running)
  /\ (mutex_ = "timer") ~> (mutex_ # "timer" \/ ~Running)
  /\ (tpc = "lock") ~> (tpc = "paint" \/ ~Running)
  /\ (hpc = "lock") ~> (Returning \/ ~Running)

\* A tick and a message both wait for mutex_.
C20_Witness ==
  /\ tpc = "lock" /\ hpc = "lock" /\ mutex_ = "free"
  /\ Len(msg.submap) = 1

====
